---- MODULE Spec2Model ----
(***************************************************************************)
(* PF2e Character Gallery Tagger (src/pf2e_character_gallery_tagger.py).   *)
(*                                                                         *)
(* A single-threaded Tkinter form.  Every operator action (choose file,    *)
(* edit a field, save, skip) runs one handler to completion, so each       *)
(* handler is one atomic action here.  The state is the two files on disk  *)
(* (datasheet.json, processed_log.txt) and the fields of ImageTagger.      *)
(*                                                                         *)
(* Python strings are sequences of one-character strings, so that strip(), *)
(* replace(), endswith(), sorting and the path functions are computed the  *)
(* way the code computes them.                                             *)
(***************************************************************************)
EXTENDS Integers, Sequences, FiniteSets, TLC

(***************************************************************************)
(* Bounds of the model (not program constants).                            *)
(***************************************************************************)
\* successful saves explored in one behaviour (the datastore grows by one each)
MaxSaves == 2
\* successful saves explored in a behaviour with form edits
FormSaves == 1
\* form edits (tag clicks, toggles, label typing) in one behaviour
MaxEdits == 2
\* program starts after the first one
MaxRestarts == 1
\* tag groups whose checkboxes the operator clicks
MaxCats == 2
\* checkboxes per group the operator clicks
MaxTagsPerCat == 2
\* components of a path handed to a path function
MaxDepth == 3

(***************************************************************************)
(* Strings.                                                                *)
(***************************************************************************)
\* str.strip() with no argument removes whitespace; the model's alphabet has
\* the blank as its only whitespace character.
Whitespace == {" "}

RECURSIVE LStrip(_)
LStrip(s) ==
    IF s # <<>> /\ Head(s) \in Whitespace THEN LStrip(Tail(s)) ELSE s

RECURSIVE RStrip(_)
RStrip(s) ==
    IF s # <<>> /\ s[Len(s)] \in Whitespace
    THEN RStrip(SubSeq(s, 1, Len(s) - 1))
    ELSE s

\* str.strip()
Strip(s) == RStrip(LStrip(s))

\* str.replace(a, b) for one-character a and b
Replace(s, a, b) == [i \in 1..Len(s) |-> IF s[i] = a THEN b ELSE s[i]]

\* str.lower(), on the alphabet of the model
LowerChar(c) ==
    CASE c = "K" -> "k"
      [] c = "P" -> "p"
      [] c = "N" -> "n"
      [] c = "G" -> "g"
      [] OTHER -> c

Lower(s) == [i \in 1..Len(s) |-> LowerChar(s[i])]

\* str.endswith(suffix)
EndsWith(s, suf) ==
    /\ Len(suf) <= Len(s)
    /\ SubSeq(s, Len(s) - Len(suf) + 1, Len(s)) = suf

\* Unicode code points of the characters of the model, for list.sort()
Ord(c) ==
    CASE c = " " -> 32
      [] c = "-" -> 45
      [] c = "." -> 46
      [] c = "/" -> 47
      [] c = "G" -> 71
      [] c = "K" -> 75
      [] c = "N" -> 78
      [] c = "P" -> 80
      [] c = "_" -> 95
      [] c = "b" -> 98
      [] c = "c" -> 99
      [] c = "g" -> 103
      [] c = "k" -> 107
      [] c = "n" -> 110
      [] c = "p" -> 112
      [] c = "q" -> 113
      [] c = "t" -> 116
      [] c = "x" -> 120
      [] c = "y" -> 121
      [] OTHER -> 122

\* s < t in Python's string order
RECURSIVE StrLess(_, _)
StrLess(s, t) ==
    IF t = <<>> THEN FALSE
    ELSE IF s = <<>> THEN TRUE
    ELSE IF Head(s) # Head(t) THEN Ord(Head(s)) < Ord(Head(t))
    ELSE StrLess(Tail(s), Tail(t))

\* insertion of one string into a sorted list
RECURSIVE Insert(_, _)
Insert(x, sorted) ==
    IF sorted = <<>> THEN <<x>>
    ELSE IF StrLess(x, Head(sorted)) THEN <<x>> \o sorted
    ELSE <<Head(sorted)>> \o Insert(x, Tail(sorted))

\* list.sort() on a list of strings
RECURSIVE Sorted(_)
Sorted(l) == IF l = <<>> THEN <<>> ELSE Insert(Head(l), Sorted(Tail(l)))

\* str.split(sep) for a one-character separator
RECURSIVE Split(_, _)
Split(s, sep) ==
    IF \A i \in 1..Len(s) : s[i] # sep THEN <<s>>
    ELSE LET k == CHOOSE i \in 1..Len(s) :
                      s[i] = sep /\ \A j \in 1..(i - 1) : s[j] # sep
         IN  <<SubSeq(s, 1, k - 1)>> \o Split(SubSeq(s, k + 1, Len(s)), sep)

\* sep.join(parts)
RECURSIVE Join(_, _)
Join(parts, sep) ==
    IF parts = <<>> THEN <<>>
    ELSE IF Len(parts) = 1 THEN parts[1]
    ELSE parts[1] \o <<sep>> \o Join(Tail(parts), sep)

\* the elements of a list that are not in `drop`
RECURSIVE Without(_, _)
Without(l, drop) ==
    IF l = <<>> THEN <<>>
    ELSE IF Head(l) \in drop THEN Without(Tail(l), drop)
    ELSE <<Head(l)>> \o Without(Tail(l), drop)

(***************************************************************************)
(* os.path on a POSIX system.                                              *)
(***************************************************************************)
\* os.sep
Sep == "/"

\* the leading slashes a POSIX path keeps: none, one, or two when the path
\* starts with exactly two
Root(p) ==
    IF p = <<>> \/ p[1] # Sep THEN <<>>
    ELSE IF Len(p) >= 2 /\ p[2] = Sep /\ (Len(p) = 2 \/ p[3] # Sep)
         THEN <<Sep, Sep>>
    ELSE <<Sep>>

\* the path components of normpath: ".." removes the component before it,
\* is dropped at the root, and stays at the start of a relative path
RECURSIVE Collapse(_, _, _)
Collapse(done, rest, rooted) ==
    IF rest = <<>> THEN done
    ELSE IF Head(rest) # <<".", ".">>
            \/ (~rooted /\ done = <<>>)
            \/ (done # <<>> /\ done[Len(done)] = <<".", ".">>)
         THEN Collapse(Append(done, Head(rest)), Tail(rest), rooted)
    ELSE IF done # <<>>
         THEN Collapse(SubSeq(done, 1, Len(done) - 1), Tail(rest), rooted)
    ELSE Collapse(done, Tail(rest), rooted)

\* os.path.normpath
normpath(p) ==
    LET comps == Collapse(<<>>, Without(Split(p, Sep), {<<>>, <<".">>}), Root(p) # <<>>)
        path == Root(p) \o Join(comps, Sep)
    IN  IF path = <<>> THEN <<".">> ELSE path

\* os.getcwd(): the folder the program was started from
Cwd == <<"/", "p", "/", "t">>

\* os.path.join(a, b) for a relative b
pathjoin(a, b) == IF a[Len(a)] = Sep THEN a \o b ELSE a \o <<Sep>> \o b

\* os.path.abspath: a relative path is joined to the working directory
abspath(p) ==
    IF Root(p) # <<>> THEN normpath(p) ELSE normpath(pathjoin(Cwd, p))

\* os.path.dirname
dirname(p) ==
    LET parts == Split(p, Sep)
        head == Join(SubSeq(parts, 1, Len(parts) - 1), Sep)
    IN  IF Len(parts) > 1 /\ head = <<>> THEN <<Sep>> ELSE head

\* os.path.basename
basename(p) == LET parts == Split(p, Sep) IN parts[Len(parts)]

\* os.path.splitext(name)[0]: the name up to its last dot (a leading dot is
\* not an extension)
splitext0(name) ==
    LET dots == {i \in 2..Len(name) : name[i] = "."}
    IN  IF dots = {} THEN name
        ELSE SubSeq(name, 1, (CHOOSE i \in dots : \A j \in dots : j <= i) - 1)

\* length of the common prefix of two component lists
RECURSIVE CommonLen(_, _)
CommonLen(a, b) ==
    IF a = <<>> \/ b = <<>> \/ Head(a) # Head(b) THEN 0
    ELSE 1 + CommonLen(Tail(a), Tail(b))

\* os.path.relpath(path, start)
relpath(path, start) ==
    LET start_list == Without(Split(abspath(start), Sep), {<<>>})
        path_list == Without(Split(abspath(path), Sep), {<<>>})
        i == CommonLen(start_list, path_list)
        rel_list == [k \in 1..(Len(start_list) - i) |-> <<".", ".">>]
                        \o SubSeq(path_list, i + 1, Len(path_list))
    IN  IF rel_list = <<>> THEN <<".">> ELSE Join(rel_list, Sep)

(***************************************************************************)
(* The module's path functions and constants.                              *)
(***************************************************************************)
\* the folder of the script: dirname(abspath(__file__))
BASE_DIR == <<"/", "p">>

\* the Foundry module id typed into ModuleIDDialog (it matches [a-z-]+)
module_id == <<"t", "-", "s">>

\* normalize_path: Path(path).as_posix() keeps the root ("/", or "//" for
\* exactly two leading slashes), drops empty and "." components and keeps ".."
normalize_path(path) ==
    LET parts == Without(Split(path, "/"), {<<>>, <<".">>})
        posix == Root(path) \o Join(parts, "/")
    IN  IF posix = <<>> THEN <<".">> ELSE posix

make_relative(path) == normalize_path(relpath(path, BASE_DIR))

\* "/modules/<module_id>/<relative path>"
make_foundry_path(p) ==
    <<"/", "m", "o", "d", "u", "l", "e", "s", "/">> \o module_id \o <<"/">>
        \o make_relative(p)

(***************************************************************************)
(* The operator's disk: image files the file dialog can return, and what   *)
(* os.listdir gives for their folders.                                     *)
(***************************************************************************)
\* "/p/ g.png": a name that starts with a blank
ImgG == <<"/", "p", "/", " ", "g", ".", "p", "n", "g">>
\* "/p/K.PNG": an upper-case extension; PIL cannot decode this file
ImgK == <<"/", "p", "/", "K", ".", "P", "N", "G">>
\* "/p/b_c.png"
ImgBC == <<"/", "p", "/", "b", "_", "c", ".", "p", "n", "g">>
\* "/p/t/k.png": a token image in a sub-folder
ImgT == <<"/", "p", "/", "t", "/", "k", ".", "p", "n", "g">>

\* what filedialog.askopenfilename returns (besides "" on cancel) when the
\* operator picks image 1, and when the operator picks image 2
PickerFiles(entry_number) ==
    IF entry_number = 1 THEN {ImgG, ImgK, ImgBC} ELSE {ImgT}

\* files Image.open can decode
Decodable == {ImgG, ImgBC, ImgT}

\* os.listdir(folder), in the arbitrary order of the file system
listdir(folder) ==
    IF folder = <<"/", "p">>
    THEN << <<"n", ".", "t", "x", "t">>,
            <<"b", "_", "c", ".", "p", "n", "g">>,
            <<"t">>,
            <<"K", ".", "P", "N", "G">>,
            <<" ", "g", ".", "p", "n", "g">> >>
    ELSE IF folder = <<"/", "p", "/", "t">>
    THEN << <<"k", ".", "p", "n", "g">> >>
    ELSE <<>>

\* the extensions choose_file keeps
ImageExtensions ==
    { <<".", "p", "n", "g">>, <<".", "j", "p", "g">>, <<".", "j", "p", "e", "g">>,
      <<".", "b", "m", "p">>, <<".", "g", "i", "f">>, <<".", "w", "e", "b", "p">> }

\* the sorted absolute paths of the images of a folder
FolderImages(folder) ==
    LET all_files == listdir(folder)
        keep == {i \in 1..Len(all_files) :
                    \E ext \in ImageExtensions : EndsWith(Lower(all_files[i]), ext)}
        Pick[i \in 0..Len(all_files)] ==
            IF i = 0 THEN <<>>
            ELSE IF i \in keep
                 THEN Append(Pick[i - 1], abspath(pathjoin(folder, all_files[i])))
                 ELSE Pick[i - 1]
    IN  Sorted(Pick[Len(all_files)])

\* list.index(x) as a Python index, with the fallback of choose_file:
\* the first entry that resolves to the same file, else 0
IndexOf(files, x) ==
    LET hits == {i \in 1..Len(files) : files[i] = x}
    IN  IF hits = {} THEN 0
        ELSE (CHOOSE i \in hits : \A j \in hits : i <= j) - 1

\* load_preview(path, 1) of a decodable image: the label suggested from the
\* file name
suggested_label(path) ==
    Replace(Replace(splitext0(basename(path)), "_", " "), "-", " ")

(***************************************************************************)
(* Paths in general: the strings the path functions are called with, and   *)
(* the files they name on a disk with one symbolic link.                   *)
(***************************************************************************)
\* the symbolic link /p/s, which points to the folder /p/t/u
LinkAt == << <<"p">>, <<"s">> >>

LinkTo == << <<"p">>, <<"t">>, <<"u">> >>

\* the components of the real path: each component is taken in turn, ".."
\* leaves the folder reached so far, and the link is followed
RECURSIVE Walk(_, _)
Walk(done, rest) ==
    IF rest = <<>> THEN done
    ELSE IF Head(rest) \in {<<>>, <<".">>} THEN Walk(done, Tail(rest))
    ELSE IF Head(rest) = <<".", ".">>
         THEN Walk(IF done = <<>> THEN done ELSE SubSeq(done, 1, Len(done) - 1),
                   Tail(rest))
    ELSE LET at == Append(done, Head(rest))
         IN  Walk(IF at = LinkAt THEN LinkTo ELSE at, Tail(rest))

\* Path(p).resolve(): the absolute path of the file p names, links followed
resolve(p) ==
    LET absolute == IF Root(p) # <<>> THEN p ELSE pathjoin(Cwd, p)
    IN  <<Sep>> \o Join(Walk(<<>>, Split(absolute, Sep)), Sep)

\* path components: the link, a folder, a file name, ".", ".." and the empty
\* component of a doubled or trailing slash
PathComponents == { <<"s">>, <<"t">>, <<"g">>, <<".">>, <<".", ".">>, <<>> }

ComponentLists == UNION { [1..n -> PathComponents] : n \in 1..MaxDepth }

\* the paths handed to the path functions: below the base directory by
\* their text, and relative to the working directory (the empty string is
\* no path: choose_file returns before it calls make_relative)
PathArgs ==
    ({ BASE_DIR \o <<Sep>> \o Join(l, Sep) : l \in ComponentLists }
        \cup { Join(l, Sep) : l \in ComponentLists }) \ {<<>>}

(***************************************************************************)
(* The functions above on the paths of the model, computed once (TLC       *)
(* evaluates a constant definition a single time).                         *)
(***************************************************************************)
KnownPaths == {ImgG, ImgK, ImgBC, ImgT}

RelativeOf == [p \in KnownPaths |-> make_relative(p)]

FoundryOf == [p \in KnownPaths |-> make_foundry_path(p)]

FolderOf == [p \in KnownPaths |-> dirname(abspath(p))]

ImagesOf == [p \in KnownPaths |-> FolderImages(FolderOf[p])]

IndexIn == [p \in KnownPaths |-> IndexOf(ImagesOf[p], abspath(p))]

LabelOf == [p \in KnownPaths |-> suggested_label(p)]

(***************************************************************************)
(* The tag taxonomy.                                                       *)
(***************************************************************************)
\* the groups, in the order create_tags_structure lists them
TagGroups == <<"category", "ancestry", "equipment", "features", "family", "special">>

create_tags_structure ==
    [category |-> <<"humanoid", "aberrant", "aquatic", "bestial", "constructed",
                    "divine", "draconic", "elemental", "fey", "fiendish", "fungal",
                    "monitor", "planar", "plant", "undead">>,
     ancestry |-> <<"dwarf", "elf", "gnome", "goblin", "halfling", "human", "leshy",
                    "orc", "amurrun", "azarketi", "fetchling", "hobgoblin", "iruxi",
                    "kholo", "kitsune", "kobold", "nagaji", "tengu", "tripkee",
                    "vanara", "ysoki", "anadi", "android", "automaton", "conrasu",
                    "fleshwarp", "ghoran", "goloma", "kashrishi", "poppet", "shisk",
                    "shoony", "skeleton", "sprite", "strix", "vishkanya", "aiuvarin",
                    "beastkin", "changeling", "dhampir", "dromaar", "geniekin",
                    "nephilim">>,
     equipment |-> <<"axe", "bludgeon", "bomb", "bow", "brawling", "crossbow", "dart",
                     "firearm", "flail", "knife", "pick", "polearm", "shield", "sling",
                     "sword", "tome", "scroll", "focus", "unarmored", "clothing",
                     "light", "medium", "heavy">>,
     features |-> <<"magic", "music", "alchemy", "companion", "dual-wielding",
                    "prosthetic", "nature", "tech", "winged">>,
     family |-> <<"civilian", "warrior", "sage", "seafarer", "officer", "outcast",
                  "worker", "artisan", "affluent">>,
     special |-> <<"bust", "unique", "iconic", "deity">>]

Categories == DOMAIN create_tags_structure

\* the checkboxes the operator clicks in the model
ClickCats == {TagGroups[i] : i \in 1..MaxCats}

ClickTags(cat) ==
    {create_tags_structure[cat][i] : i \in 1..MaxTagsPerCat}

\* what the operator types into the label field
TypedLabels == { <<" ">>, <<" ", "x", " ", "y", " ">> }

(***************************************************************************)
(* State.                                                                  *)
(***************************************************************************)
VARIABLES
    json_file,        \* datasheet.json: [kind, data]; kind is "absent", "corrupt"
                      \* (not JSON), "other" (JSON, not an array) or "list"
    log_file,         \* processed_log.txt: [exists, lines]
    processed_paths,  \* self.processed_paths
    current_folder,   \* self.current_folder (<<>> is None)
    image_files,      \* self.image_files
    current_index,    \* self.current_index (a Python index, -1 at start)
    saved_count,      \* self.saved_count
    path_entry1,      \* text of self.path_entry1
    path_entry2,      \* text of self.path_entry2
    label_entry,      \* text of self.label_entry
    scale_var,        \* self.scale_var
    tag_vars,         \* self.tag_vars: group -> the tags whose IntVar is 1
    keep_group_vars,  \* self.keep_group_vars: group -> the toggle is on
    saves,            \* history: datastore writes that succeeded
    edits,            \* history: form edits made
    restarts,         \* history: program starts after the first
    saved_over,       \* history: kind of the datastore file the last successful
                      \* save found ("none" before the first)
    log_io_failed,    \* history: a read or write of the log file has failed
    path_arg,         \* the path a path function is called with (<<>>: no call)
    path_out          \* the function called last and what it returned

vars ==
    <<json_file, log_file, processed_paths, current_folder, image_files,
      current_index, saved_count, path_entry1, path_entry2, label_entry,
      scale_var, tag_vars, keep_group_vars, saves, edits, restarts, saved_over,
      log_io_failed, path_arg, path_out>>

disk == <<json_file, log_file>>

form == <<path_entry1, path_entry2, label_entry, scale_var, tag_vars, keep_group_vars>>

folder == <<current_folder, image_files, current_index>>

history == <<saves, edits, restarts, saved_over>>

calls == <<path_arg, path_out>>

\* no path function has been called
NoCall == [fn |-> "none", value |-> <<>>]

\* the Spinbox of the scale field: from_=1, to=10
ScaleFrom == 1
ScaleTo == 10

(***************************************************************************)
(* The datastore and the log as files.                                     *)
(***************************************************************************)
AbsentJson == [kind |-> "absent", data |-> <<>>]
CorruptJson == [kind |-> "corrupt", data |-> <<>>]
OtherJson == [kind |-> "other", data |-> <<>>]
ListJson(data) == [kind |-> "list", data |-> data]

\* an entry saved by an earlier session
Entry0 ==
    [label |-> <<"q">>,
     key |-> <<"q">>,
     source |-> "Token Sammlung",
     art |-> [portrait |-> FoundryOf[ImgT],
              thumb |-> FoundryOf[ImgT],
              token |-> FoundryOf[ImgT],
              subject |-> FoundryOf[ImgT],
              scale |-> 1],
     tags |-> <<>>]

\* what update_saved_count reads: len(data) for a JSON array, else 0
count_entries(file) == IF file.kind = "list" THEN Len(file.data) ELSE 0

\* _load_processed_paths without a read error: the stripped non-blank lines
load_processed_paths(file) ==
    IF file.exists
    THEN {Strip(file.lines[i]) : i \in {j \in 1..Len(file.lines) : Strip(file.lines[j]) # <<>>}}
    ELSE {}

\* _append_to_log without a write error: open(LOG_FILE, "a") creates the file
append_to_log(file, rel_path) ==
    [exists |-> TRUE, lines |-> Append(file.lines, rel_path)]

(***************************************************************************)
(* Start of the program: ImageTagger.__init__.                             *)
(***************************************************************************)
\* a read error of the log that still hands back the lines of the file
loaded_paths_despite_error(file, log_read_ok) == load_processed_paths(file)

\* what _load_processed_paths returns: the set read from the file, or the
\* empty set when the file is missing or open/read raises
loaded_paths(file, log_read_ok) ==
    IF log_read_ok THEN load_processed_paths(file) ELSE {}

NoTags == [cat \in Categories |-> {}]

NoKeep == [cat \in Categories |-> FALSE]

\* the fields __init__ and _setup_ui set, given the files on disk; log_read_ok
\* is whether open/read of an existing log file succeeds
Construct(log_read_ok) ==
    /\ processed_paths' = loaded_paths(log_file', log_read_ok)
    /\ current_folder' = <<>>
    /\ image_files' = <<>>
    /\ current_index' = -1
    /\ path_entry1' = <<>>
    /\ path_entry2' = <<>>
    /\ label_entry' = <<>>
    /\ scale_var' = 1
    /\ tag_vars' = NoTags
    /\ keep_group_vars' = NoKeep
    /\ saved_count' = count_entries(json_file')

\* the program after ImageTagger.__init__, on a disk without a log
ProgramInit ==
    /\ json_file \in {AbsentJson, CorruptJson, OtherJson, ListJson(<<Entry0>>)}
    /\ log_file = [exists |-> FALSE, lines |-> <<>>]
    /\ processed_paths = {}
    /\ current_folder = <<>>
    /\ image_files = <<>>
    /\ current_index = -1
    /\ path_entry1 = <<>>
    /\ path_entry2 = <<>>
    /\ label_entry = <<>>
    /\ scale_var = 1
    /\ tag_vars = NoTags
    /\ keep_group_vars = NoKeep
    /\ saved_count = count_entries(json_file)
    /\ saves = 0
    /\ edits = 0
    /\ restarts = 0
    /\ saved_over = "none"
    /\ log_io_failed = FALSE

Init ==
    /\ ProgramInit
    /\ path_arg = <<>>
    /\ path_out = NoCall

\* the program is closed and started again on the same files
Restart ==
    /\ restarts < MaxRestarts
    /\ restarts' = restarts + 1
    /\ UNCHANGED <<disk, saves, edits, saved_over, calls>>
    /\ \E log_read_ok \in BOOLEAN :
           /\ log_read_ok \/ log_file.exists
           /\ Construct(log_read_ok)
           /\ log_io_failed' = (log_io_failed \/ ~log_read_ok)

(***************************************************************************)
(* Form edits.                                                             *)
(***************************************************************************)
\* load_preview(path, 1): the label suggested from the file name, or the
\* old label when the image cannot be decoded
PreviewLabel(path, old) == IF path \in Decodable THEN LabelOf[path] ELSE old

\* a choose_file that turns down an image found in processed_paths
choose_file_blocks_processed(entry_number, file_path) ==
    IF RelativeOf[file_path] \in processed_paths
    THEN UNCHANGED vars
    ELSE /\ IF entry_number = 1
            THEN /\ path_entry1' = file_path
                 /\ label_entry' = PreviewLabel(file_path, label_entry)
                 /\ current_folder' = FolderOf[file_path]
                 /\ image_files' = ImagesOf[file_path]
                 /\ current_index' = IndexIn[file_path]
                 /\ saved_count' = count_entries(json_file)
                 /\ UNCHANGED path_entry2
            ELSE /\ path_entry2' = file_path
                 /\ UNCHANGED <<path_entry1, label_entry, folder, saved_count>>
         /\ UNCHANGED <<disk, processed_paths, scale_var, tag_vars, keep_group_vars,
                        history, log_io_failed, calls>>

\* choose_file(entry_number) with the dialog returning file_path
\* (a path found in processed_paths only raises a warning box)
choose_file(entry_number, file_path) ==
        /\ IF entry_number = 1
           THEN /\ path_entry1' = file_path
                /\ label_entry' = PreviewLabel(file_path, label_entry)
                /\ current_folder' = FolderOf[file_path]
                /\ image_files' = ImagesOf[file_path]
                /\ current_index' = IndexIn[file_path]
                /\ saved_count' = count_entries(json_file)
                /\ UNCHANGED path_entry2
           ELSE /\ path_entry2' = file_path
                /\ UNCHANGED <<path_entry1, label_entry, folder, saved_count>>
        /\ UNCHANGED <<disk, processed_paths, scale_var, tag_vars, keep_group_vars,
                       history, log_io_failed, calls>>

ChooseFile ==
    \E entry_number \in {1, 2} : \E file_path \in PickerFiles(entry_number) :
        choose_file(entry_number, file_path)

\* the file dialog is cancelled: choose_file returns at once
ChooseCancel == UNCHANGED vars

\* clear_input(entry): the "Löschen" button of a path row
clear_input(entry_number) ==
    /\ IF entry_number = 1
       THEN path_entry1' = <<>> /\ UNCHANGED path_entry2
       ELSE path_entry2' = <<>> /\ UNCHANGED path_entry1
    /\ UNCHANGED <<disk, processed_paths, folder, saved_count, label_entry,
                   scale_var, tag_vars, keep_group_vars, history, log_io_failed, calls>>

ClearInput == \E entry_number \in {1, 2} : clear_input(entry_number)

\* the operator types a label
EditLabel ==
    /\ edits < MaxEdits
    /\ edits' = edits + 1
    /\ \E text \in TypedLabels : label_entry' = text
    /\ UNCHANGED <<disk, processed_paths, folder, saved_count, path_entry1,
                   path_entry2, scale_var, tag_vars, keep_group_vars, saves,
                   restarts, saved_over, log_io_failed, calls>>

\* mutant of spin: a Spinbox without from_ and to
spin_unclamped(value, step) == value + step

\* the value after a click on an arrow of the read-only Spinbox
spin(value, step) ==
    IF value + step > ScaleTo THEN ScaleTo
    ELSE IF value + step < ScaleFrom THEN ScaleFrom
    ELSE value + step

\* a click on the up or the down arrow
Spin ==
    /\ \E step \in {-1, 1} : scale_var' = spin(scale_var, step)
    /\ UNCHANGED <<disk, processed_paths, folder, saved_count, path_entry1,
                   path_entry2, label_entry, tag_vars, keep_group_vars, history,
                   log_io_failed, calls>>

\* a click on the Checkbutton of a tag
ToggleTag ==
    /\ edits < MaxEdits
    /\ edits' = edits + 1
    /\ \E cat \in ClickCats : \E opt \in ClickTags(cat) :
           tag_vars' = [tag_vars EXCEPT ![cat] =
                            IF opt \in @ THEN @ \ {opt} ELSE @ \cup {opt}]
    /\ UNCHANGED <<disk, processed_paths, folder, saved_count, path_entry1,
                   path_entry2, label_entry, scale_var, keep_group_vars, saves,
                   restarts, saved_over, log_io_failed, calls>>

\* a click on "Tags behalten" of a group
ToggleKeep ==
    /\ edits < MaxEdits
    /\ edits' = edits + 1
    /\ \E cat \in ClickCats :
           keep_group_vars' = [keep_group_vars EXCEPT ![cat] = ~@]
    /\ UNCHANGED <<disk, processed_paths, folder, saved_count, path_entry1,
                   path_entry2, label_entry, scale_var, tag_vars, saves,
                   restarts, saved_over, log_io_failed, calls>>

(***************************************************************************)
(* Navigation: load_next_image and skip_image.                             *)
(***************************************************************************)
\* a load_next_image that shows the current image again
load_next_image_same_index ==
    IF image_files # <<>> /\ current_index < Len(image_files) - 1
    THEN LET next_path == image_files[current_index + 1]
         IN  /\ path_entry1' = next_path
             /\ label_entry' = PreviewLabel(next_path, label_entry)
             /\ path_entry2' = <<>>
             /\ UNCHANGED current_index
    ELSE /\ path_entry1' = <<>>
         /\ path_entry2' = <<>>
         /\ label_entry' = <<>>
         /\ UNCHANGED current_index

load_next_image ==
    IF image_files # <<>> /\ current_index < Len(image_files) - 1
    THEN LET next_path == image_files[(current_index + 1) + 1]
         IN  /\ current_index' = current_index + 1
             /\ path_entry1' = next_path
             /\ label_entry' = PreviewLabel(next_path, label_entry)
             /\ path_entry2' = <<>>
    ELSE \* "Keine weiteren Bilder im Ordner."
         /\ path_entry1' = <<>>
         /\ path_entry2' = <<>>
         /\ label_entry' = <<>>
         /\ UNCHANGED current_index

SkipImage ==
    /\ load_next_image
    /\ UNCHANGED <<disk, processed_paths, current_folder, image_files, saved_count,
                   scale_var, tag_vars, keep_group_vars, history, log_io_failed, calls>>

(***************************************************************************)
(* save_and_next.                                                          *)
(***************************************************************************)
\* mutant of label_text: the label is taken as typed
label_text_unstripped(raw) == raw

\* label = self.label_entry.get().strip()
label_text(raw) == Strip(raw)

\* mutant of second_path: the second path field is never read
second_path_ignores_entry2(path1, entry2) == path1

\* path2 = self.path_entry2.get() or path1
second_path(path1, entry2) == IF entry2 # <<>> THEN entry2 ELSE path1

\* mutant of collect_tags: a key for every group, selected or not
collect_tags_all_groups(selection) ==
    [cat \in Categories |->
        SelectSeq(create_tags_structure[cat], LAMBDA opt : opt \in selection[cat])]

\* tag_data: the groups with a selected tag, each with its selected tags in
\* the order of the taxonomy
collect_tags(selection) ==
    [cat \in {c \in Categories : selection[c] # {}} |->
        SelectSeq(create_tags_structure[cat], LAMBDA opt : opt \in selection[cat])]

\* the entry save_and_next builds from the form
build_entry(path1, path2, label, scale, selection) ==
    [label |-> label,
     key |-> Replace(label, " ", "-"),
     source |-> "Token Sammlung",
     art |-> [portrait |-> FoundryOf[path1],
              thumb |-> FoundryOf[path1],
              token |-> FoundryOf[path2],
              subject |-> FoundryOf[path2],
              scale |-> scale],
     tags |-> collect_tags(selection)]

\* the entry of the form as it is now
form_entry ==
    build_entry(path_entry1, second_path(path_entry1, path_entry2),
                label_text(label_entry), scale_var, tag_vars)

\* data: json.load of an existing file, [] when the file is absent or raises
\* JSONDecodeError
loaded_data(file) == IF file.kind = "list" THEN file.data ELSE <<>>

\* mutant of written_file: a file that is not JSON is left as it is
written_file_keeps_corrupt(file, entry) ==
    IF file.kind = "corrupt" THEN file
    ELSE ListJson(Append(loaded_data(file), entry))

\* mutant of written_file: a missing file is created holding an empty array
written_file_creates_empty(file, entry) ==
    IF file.kind = "absent" THEN ListJson(<<>>)
    ELSE ListJson(Append(loaded_data(file), entry))

\* the file after data.append(entry) and a json.dump that succeeds
written_file(file, entry) == ListJson(Append(loaded_data(file), entry))

\* a reset that clears every group, whatever its toggle
reset_tags_all_groups(selection, keep) == [cat \in Categories |-> {}]

\* the tag selection after the reset of the groups whose toggle is off
reset_tags(selection, keep) ==
    [cat \in Categories |-> IF keep[cat] THEN selection[cat] ELSE {}]

\* how open(JSON_FILE, "w") and json.dump can end: "ok"; "OpenError", a
\* PermissionError or another error raised by open (the file is not touched);
\* "DumpError", an error raised by json.dump or by closing the file, after
\* open has truncated it
WriteOutcomes == {"ok", "OpenError", "DumpError"}

\* a handler that shows a message box and returns
Refuse == UNCHANGED vars

\* the rest of save_and_next once the datastore is written
AfterWrite(path1) ==
    LET rel_path == RelativeOf[path1]
    IN  /\ saves' = saves + 1
        /\ saved_over' = json_file.kind
        /\ saved_count' = saved_count + 1
        /\ tag_vars' = reset_tags(tag_vars, keep_group_vars)
        /\ IF rel_path \notin processed_paths
           THEN /\ processed_paths' = processed_paths \cup {rel_path}
                /\ \E log_ok \in BOOLEAN :
                       /\ log_file' = IF log_ok THEN append_to_log(log_file, rel_path)
                                      ELSE log_file
                       /\ log_io_failed' = (log_io_failed \/ ~log_ok)
           ELSE UNCHANGED <<processed_paths, log_file, log_io_failed>>
        /\ load_next_image
        /\ UNCHANGED <<current_folder, image_files, scale_var, keep_group_vars,
                       edits, restarts, calls>>

save_and_next(limit) ==
    LET path1 == path_entry1
        label == label_text(label_entry)
    IN  IF path1 = <<>> THEN Refuse
        ELSE IF label = <<>> THEN Refuse
        ELSE IF json_file.kind = "other"
        THEN \* data.append raises AttributeError, which nothing catches: the
             \* handler ends there and Tk prints the traceback
             UNCHANGED vars
        ELSE \E outcome \in WriteOutcomes :
                 \/ /\ outcome = "ok"
                    /\ saves < limit
                    /\ json_file' = written_file(json_file, form_entry)
                    /\ AfterWrite(path1)
                 \/ /\ outcome = "OpenError"
                    /\ Refuse
                 \/ /\ outcome = "DumpError"
                    /\ json_file' = CorruptJson
                    /\ UNCHANGED <<log_file, processed_paths, folder, saved_count,
                                   form, history, log_io_failed, calls>>

(***************************************************************************)
(* The path functions on their own.                                        *)
(***************************************************************************)
\* the functions are called with any of the paths
InitPath ==
    /\ ProgramInit
    /\ json_file = AbsentJson
    /\ path_arg \in PathArgs
    /\ path_out = NoCall

\* a call of make_relative(path_arg)
MakeRelative ==
    /\ path_out' = [fn |-> "make_relative", value |-> make_relative(path_arg)]
    /\ UNCHANGED <<disk, processed_paths, folder, saved_count, form, history,
                   log_io_failed, path_arg>>

\* a call of normalize_path(path_arg)
NormalizePath ==
    /\ path_out' = [fn |-> "normalize_path", value |-> normalize_path(path_arg)]
    /\ UNCHANGED <<disk, processed_paths, folder, saved_count, form, history,
                   log_io_failed, path_arg>>

NextPath ==
    \/ MakeRelative
    \/ NormalizePath

SpecPath == InitPath /\ [][NextPath]_vars

(***************************************************************************)
(* The program.  The state space of all operator actions together is too   *)
(* large to enumerate, so four specifications explore it by aspect: Spec    *)
(* the files (several saves, program restarts, write failures) with the    *)
(* form filled by the file dialog alone; SpecForm the label and the tags   *)
(* typed and clicked before one save; SpecScale the scale Spinbox;         *)
(* SpecKeep the tags and their toggles over several saves.                 *)
(***************************************************************************)
SaveAndNext == save_and_next(MaxSaves)

SaveOnce == save_and_next(FormSaves)

Next ==
    \/ ChooseFile
    \/ ChooseCancel
    \/ ClearInput
    \/ SaveAndNext
    \/ SkipImage
    \/ Restart

Spec == Init /\ [][Next]_vars

NextForm ==
    \/ ChooseFile
    \/ ClearInput
    \/ EditLabel
    \/ ToggleTag
    \/ ToggleKeep
    \/ SaveOnce
    \/ SkipImage

SpecForm == Init /\ [][NextForm]_vars

NextScale ==
    \/ ChooseFile
    \/ Spin
    \/ SaveOnce
    \/ SkipImage

SpecScale == Init /\ [][NextScale]_vars

\* the tags and their toggles over several saves, from an empty disk
InitKeep ==
    /\ Init
    /\ json_file = AbsentJson

NextKeep ==
    \/ ChooseFile
    \/ ToggleTag
    \/ ToggleKeep
    \/ SaveAndNext
    \/ SkipImage

SpecKeep == InitKeep /\ [][NextKeep]_vars

(***************************************************************************)
(* Properties.                                                             *)
(***************************************************************************)
\* the last entry of a datastore file that holds an array
LastEntry(file) == file.data[Len(file.data)]

\* the step is a save that wrote the datastore
Saved == saves' = saves + 1

\* C1: starting from a datastore with C entries, after N successful saves
\* the entry count read from the file is C + N, and nothing else changes it:
\* every step adds to the count read from the file exactly the number of
\* successful saves it makes (0 or 1).
C1_CountFollowsSaves ==
    [][count_entries(json_file') = count_entries(json_file) + (saves' - saves)]_vars

\* C2: a save whose datastore write fails leaves the datastore file with its
\* prior contents and changes nothing else (log, processed set, saved_count,
\* tag selections, path fields, position in the folder).
C2_FailedWriteChangesNothing ==
    [][(/\ path_entry1 # <<>>
        /\ Strip(label_entry) # <<>>
        /\ SaveAndNext
        /\ ~Saved) => UNCHANGED vars]_vars

C4_AbsentFileCreated ==
    [][/\ (Saved /\ json_file.kind = "absent")
              => json_file' = ListJson(<<form_entry>>)
       /\ (Restart \/ ChooseFile \/ SkipImage)
              => /\ (json_file'.kind = "absent") = (json_file.kind = "absent")
                 /\ log_file'.exists = log_file.exists]_vars

\* C4 witness: a save has created the datastore file with its one entry, and
\* the log file with it.
C4_Witness ==
    /\ saved_over = "absent"
    /\ json_file.kind = "list"
    /\ Len(json_file.data) = 1
    /\ log_file.exists

\* C5: the datastore is append-only: from a file holding a JSON array, a step
\* either leaves the file as it is or is a successful save that adds the new
\* entry as the last element.
C5_AppendOnly ==
    [][json_file.kind = "list"
          => \/ json_file' = json_file
             \/ /\ Saved
                /\ json_file' = ListJson(Append(json_file.data, form_entry))]_vars

\* C6: with path-1 empty, or the label empty once stripped, save_and_next
\* changes nothing: no file, not the processed set, saved_count,
\* current_index, the path fields or the tag selections.
C6_MissingFieldsChangeNothing ==
    [][((path_entry1 = <<>> \/ Strip(label_entry) = <<>>) /\ SaveOnce)
          => UNCHANGED vars]_vars

\* C6 witness: an image is chosen and the label typed is blank.
C6_Witness ==
    /\ path_entry1 # <<>>
    /\ label_entry # <<>>
    /\ Strip(label_entry) = <<>>
    /\ saves = 0

C8_ArtPaths ==
    [][Saved =>
          LET art == LastEntry(json_file').art
              image1 == path_entry1
              image2 == IF path_entry2 = <<>> THEN path_entry1 ELSE path_entry2
          IN  /\ art.portrait = make_foundry_path(image1)
              /\ art.thumb = make_foundry_path(image1)
              /\ art.token = make_foundry_path(image2)
              /\ art.subject = make_foundry_path(image2)]_vars

\* C8 witness: one entry was saved with a second image of its own, the next
\* with the path-2 field empty.
C8_Witness ==
    /\ saves = 2
    /\ json_file.kind = "list"
    /\ Len(json_file.data) >= 2
    /\ LET n == Len(json_file.data)
       IN  /\ json_file.data[n - 1].art.token # json_file.data[n - 1].art.portrait
           /\ json_file.data[n].art.token = json_file.data[n].art.portrait
           /\ json_file.data[n].art.subject = json_file.data[n].art.thumb

\* position of a tag in its group of the taxonomy
TagPosition(cat, opt) ==
    CHOOSE i \in 1..Len(create_tags_structure[cat]) : create_tags_structure[cat][i] = opt

\* C9: the tags of a saved entry have a key for exactly the groups with a
\* selected tag, and under it exactly the selected tags of the group, each
\* once, in the order of the taxonomy.
C9_TagsAreTheSelection ==
    [][Saved =>
          LET tags == LastEntry(json_file').tags
          IN  /\ DOMAIN tags = {cat \in Categories : tag_vars[cat] # {}}
              /\ \A cat \in DOMAIN tags :
                     /\ {tags[cat][i] : i \in 1..Len(tags[cat])} = tag_vars[cat]
                     /\ \A i, j \in 1..Len(tags[cat]) :
                            i < j => TagPosition(cat, tags[cat][i])
                                         < TagPosition(cat, tags[cat][j])]_vars

\* C9 witness: an entry was saved with two tags of one group and none of the
\* other groups.
C9_Witness ==
    /\ saves = 1
    /\ json_file.kind = "list"
    /\ DOMAIN LastEntry(json_file).tags = {"category"}
    /\ LastEntry(json_file).tags["category"] = <<"humanoid", "aberrant">>

\* C10: when no read or write of the log has failed, after a successful save
\* of an image a fresh load of the log file contains the image's relative
\* path, and the path is on exactly one line of the file.
C10_LogRoundTrip ==
    [][(Saved /\ ~log_io_failed') =>
          LET rel_path == make_relative(path_entry1)
              lines == log_file'.lines
          IN  /\ rel_path \in load_processed_paths(log_file')
              /\ Cardinality({i \in 1..Len(lines) : lines[i] = rel_path}) = 1]_vars

\* the step is a save whose datastore write succeeded and whose log append
\* raised: the path was new, and the log file is as it was
LogAppendFailed ==
    /\ Saved
    /\ RelativeOf[path_entry1] \notin processed_paths
    /\ log_file' = log_file

\* the form after load_next_image, stated from the folder list
Advanced ==
    /\ path_entry2' = <<>>
    /\ IF image_files # <<>> /\ current_index + 1 < Len(image_files)
       THEN /\ current_index' = current_index + 1
            /\ path_entry1' = image_files[current_index + 2]
       ELSE /\ current_index' = current_index
            /\ path_entry1' = <<>>
            /\ label_entry' = <<>>

\* C11: a failure of the log is not fatal and nothing is rolled back.  When
\* the append to the log fails after the datastore was written, the new entry
\* is the last one of the datastore, saved_count is one more, the path stays
\* in the processed set and the form advances to the next image.  A start of
\* the program leaves the files alone and ends with the processed set either
\* read from the log or empty, and when the read of the log fails the set is
\* empty and the program stands in its start state.
C11_LogFailureNotFatal ==
    [][/\ LogAppendFailed
           => /\ json_file'.kind = "list"
              /\ Len(json_file'.data) = count_entries(json_file) + 1
              /\ LastEntry(json_file') = form_entry
              /\ saved_count' = saved_count + 1
              /\ processed_paths' = processed_paths \cup {RelativeOf[path_entry1]}
              /\ Advanced
       /\ Restart
           => /\ UNCHANGED disk
              /\ processed_paths' \in {{}, load_processed_paths(log_file)}
              /\ (~log_io_failed /\ log_io_failed') => processed_paths' = {}
              /\ current_index' = -1
              /\ path_entry1' = <<>>
              /\ saved_count' = count_entries(json_file)]_vars

\* C11 witness: "b_c.png" was saved and logged, the program was started again
\* and could not read the log (the set was empty although the log has the
\* line), then " g.png" was saved while the append to the log failed: two
\* entries are stored and counted, the log still has its one line, and the
\* form shows the next image of the folder.
C11_Witness ==
    /\ restarts = 1
    /\ saves = 2
    /\ log_io_failed
    /\ log_file.lines = <<RelativeOf[ImgBC]>>
    /\ processed_paths = {RelativeOf[ImgG]}
    /\ json_file.kind = "list"
    /\ Len(json_file.data) = 2
    /\ saved_count = 2
    /\ path_entry1 = ImgK

\* the form holds an image found in the processed set and a label, and the
\* datastore is one a save can extend
ProcessedImageReady ==
    /\ path_entry1 # <<>>
    /\ RelativeOf[path_entry1] \in processed_paths
    /\ Strip(label_entry) # <<>>
    /\ json_file.kind # "other"

\* C12: the processed set never blocks an operation.  In every state the
\* file dialog can hand over an image whose relative path is in the
\* processed set, and the image is then loaded into the form with its folder
\* list; in every state where the form holds such an image and a label, a
\* save can go through; and every save of such an image appends its entry to
\* the datastore (the log and the set are left as they are).
C12_LogNeverBlocks ==
    /\ [](\A f \in PickerFiles(1) :
              RelativeOf[f] \in processed_paths
                  => ENABLED (/\ choose_file(1, f)
                              /\ path_entry1' = f
                              /\ image_files' = ImagesOf[f]
                              /\ label_entry' = PreviewLabel(f, label_entry)))
    /\ []((ProcessedImageReady /\ saves < MaxSaves)
              => ENABLED (SaveAndNext /\ Saved))
    /\ [][(Saved /\ RelativeOf[path_entry1] \in processed_paths)
              => /\ json_file' = ListJson(Append(loaded_data(json_file), form_entry))
                 /\ UNCHANGED <<log_file, processed_paths>>]_vars

\* C12 witness: within one run the same image was saved twice, the second
\* time while its path was in the processed set: the datastore ends with two
\* entries for the one image and the log has its line once.
C12_Witness ==
    /\ saves = 2
    /\ restarts = 0
    /\ ~log_io_failed
    /\ Len(log_file.lines) = 1
    /\ json_file.kind = "list"
    /\ Len(json_file.data) >= 2
    /\ LET n == Len(json_file.data)
       IN  json_file.data[n - 1].art.portrait = json_file.data[n].art.portrait

\* the path names a file or folder in the tree of the base directory
InsideBase(p) ==
    LET base == resolve(BASE_DIR)
        real == resolve(p)
    IN  \/ real = base
        \/ /\ Len(real) > Len(base)
           /\ SubSeq(real, 1, Len(base) + 1) = base \o <<Sep>>

\* C13: for every path in the tree of the base directory, the base directory
\* joined with make_relative(path) resolves to the file the path itself
\* resolves to; what make_relative returns has "/" as its only separator (no
\* backslash, no empty or "." component, no slash at either end); and
\* normalize_path applied to its own result returns it unchanged.
C13_PathRoundTrip ==
    /\ (path_out.fn = "make_relative" /\ InsideBase(path_arg))
           => /\ resolve(pathjoin(BASE_DIR, path_out.value)) = resolve(path_arg)
              /\ \A i \in 1..Len(path_out.value) : path_out.value[i] # "\\"
              /\ LET parts == Split(path_out.value, "/")
                 IN  \/ path_out.value = <<".">>
                     \/ \A i \in 1..Len(parts) : parts[i] \notin {<<>>, <<".">>}
    /\ path_out.fn = "normalize_path"
           => normalize_path(path_out.value) = path_out.value

\* C14: a save that succeeds deselects every tag of each group whose "keep
\* tags" toggle is off and leaves the selection of each group whose toggle is
\* on as it was (the next entry saved gets those tags again), and it changes
\* no toggle; skip_image and a save that is rejected or fails change no tag
\* selection and no toggle.
C14_KeepTags ==
    [][/\ Saved
           => /\ \A cat \in Categories :
                     IF keep_group_vars[cat]
                     THEN tag_vars'[cat] = tag_vars[cat]
                     ELSE tag_vars'[cat] = {}
              /\ keep_group_vars' = keep_group_vars
              /\ LastEntry(json_file').tags = collect_tags(tag_vars)
       /\ (SkipImage \/ (SaveAndNext /\ ~Saved))
           => UNCHANGED <<tag_vars, keep_group_vars>>]_vars

\* C14 witness: "humanoid" was ticked and the toggle of its group switched
\* on, then two entries were saved: both carry the tag and it is still
\* selected.
C14_Witness ==
    /\ saves = 2
    /\ edits = 2
    /\ keep_group_vars["category"]
    /\ tag_vars["category"] = {"humanoid"}
    /\ json_file.kind = "list"
    /\ Len(json_file.data) = 2
    /\ \A i \in 1..2 :
           /\ DOMAIN json_file.data[i].tags = {"category"}
           /\ json_file.data[i].tags["category"] = <<"humanoid">>

\* the step is an advance: a save that succeeded, or a skip
Advance == Saved \/ SkipImage

\* C15: the folder list is in strictly ascending order and the image in
\* path 1 is the one at current_index (the position it was chosen at or
\* advanced to).  Every advance clears path 2 and, while an image follows in
\* the list, loads the one at the next position (the index grows by one, so
\* no image is shown twice and none is left out); the advance at the last
\* position finds no further image, clears path 1, path 2 and the label and
\* leaves current_index as it is.  Only a file choice or a new start of the
\* program changes the list or the index otherwise, and while path 1 is empty
\* a save changes nothing.
C15_NavigationOrder ==
    /\ [](/\ \A i \in 1..(Len(image_files) - 1) :
                 StrLess(image_files[i], image_files[i + 1])
          /\ path_entry1 # <<>>
                 => /\ current_index \in 0..(Len(image_files) - 1)
                    /\ image_files[current_index + 1] = path_entry1)
    /\ [][/\ Advance
               => /\ path_entry2' = <<>>
                  /\ image_files' = image_files
                  /\ IF current_index + 1 < Len(image_files)
                     THEN /\ current_index' = current_index + 1
                          /\ path_entry1' = image_files[current_index + 2]
                     ELSE /\ current_index' = current_index
                          /\ path_entry1' = <<>>
                          /\ label_entry' = <<>>
          /\ ~(Advance \/ ChooseFile \/ Restart)
               => UNCHANGED <<image_files, current_index>>
          /\ (path_entry1 = <<>> /\ SaveAndNext) => UNCHANGED vars]_vars

\* C15 witness: of a folder of three images the second and the third were
\* saved one after the other, and the advance after the third found no
\* further image: the form is empty and the index is still that of the third.
C15_Witness ==
    /\ saves = 2
    /\ Len(image_files) = 3
    /\ current_index = 2
    /\ path_entry1 = <<>>
    /\ path_entry2 = <<>>
    /\ label_entry = <<>>
    /\ json_file.kind = "list"
    /\ Len(json_file.data) >= 2
    /\ LET n == Len(json_file.data)
       IN  /\ json_file.data[n - 1].art.portrait = FoundryOf[image_files[2]]
           /\ json_file.data[n].art.portrait = FoundryOf[image_files[3]]

\* C16: in every state of a running instance (after its start and after
\* every save, skip and file choice) saved_count is the number of entries
\* update_saved_count would read from the datastore file: the length of the
\* array, and 0 when the file is absent, is not JSON or holds no array.
C16_CounterMatchesFile == saved_count = count_entries(json_file)

====
